---- MODULE Spec2Model ----
(***************************************************************************)
(* a3-preset-parser: the link decoders, Preset::from_str, the Display      *)
(* rendering of a Preset (src/src/lib.rs) and the comparison driver        *)
(* (src/examples/a3_preset_compare.rs).                                    *)
(*                                                                         *)
(* Text is a sequence of one-character strings.  Option<T> is <<>> (None)  *)
(* or <<v>> (Some(v)).  A u64 is its decimal numeral: a non-empty sequence *)
(* of digit values 0..9, most significant first, without leading zeros.   *)
(***************************************************************************)
EXTENDS Integers, Sequences, FiniteSets, TLC

VARIABLES
  \* link decoders: the input link, the decoders applied, their results
  link, decoded, workshop_id, app_id,
  \* Preset::from_str: the document, the position in the function, the next
  \* mod and DLC row, the locals of the function, and its return value
  document, pc, mi, di, game, preset_name, steam_mods, local_mods, dlcs, result,
  \* two parsed presets
  preset1, preset2,
  \* PresetsCompare: the two labels, and the report of (preset1, preset2)
  \* and of (preset2, preset1) with the labels swapped
  preset1_name, preset2_name, report12, report21,
  \* the compare driver: the file stems of the two paths, the text written
  path1, path2, out,
  \* the conversion driver: the text written for each preset
  text1, text2

linkVars == <<link, decoded, workshop_id, app_id>>

parseVars ==
  <<document, pc, mi, di, game, preset_name, steam_mods, local_mods, dlcs, result>>

presetVars == <<preset1, preset2>>

compareVars == <<preset1_name, preset2_name, report12, report21>>

runVars == <<path1, path2, out>>

renderVars == <<text1, text2>>

vars == <<linkVars, parseVars, presetVars, compareVars, runVars, renderVars>>

None == <<>>

Some(v) == <<v>>

(***************************************************************************)
(* Bounds of the input domains.                                            *)
(***************************************************************************)
MaxIdLen == 2

(***************************************************************************)
(* Generic text helpers.                                                   *)
(***************************************************************************)
SeqsUpTo(S, n) == UNION {[1..k -> S] : k \in 0..n}

DropFirst(s, n) == SubSeq(s, n + 1, Len(s))

\* str::strip_prefix: the remainder after the prefix, or None.
StripPrefix(s, p) ==
  IF Len(s) >= Len(p) /\ SubSeq(s, 1, Len(p)) = p
  THEN Some(DropFirst(s, Len(p)))
  ELSE None

\* char::is_whitespace, on the characters the inputs use.
IsWhitespace(c) == c \in {" ", "\t", "\n"}

RECURSIVE TrimStart(_)
TrimStart(s) ==
  IF s # <<>> /\ IsWhitespace(s[1]) THEN TrimStart(Tail(s)) ELSE s

RECURSIVE TrimEnd(_)
TrimEnd(s) ==
  IF s # <<>> /\ IsWhitespace(s[Len(s)])
  THEN TrimEnd(SubSeq(s, 1, Len(s) - 1))
  ELSE s

\* str::trim
Trim(s) == TrimEnd(TrimStart(s))

(***************************************************************************)
(* u64 parsing and formatting.                                             *)
(***************************************************************************)
DigitChars == <<"0", "1", "2", "3", "4", "5", "6", "7", "8", "9">>

IsDigit(c) == \E d \in 1..10 : DigitChars[d] = c

DigitVal(c) == (CHOOSE d \in 1..10 : DigitChars[d] = c) - 1

\* u64::MAX = 18446744073709551615
U64_MAX == <<1, 8, 4, 4, 6, 7, 4, 4, 0, 7, 3, 7, 0, 9, 5, 5, 1, 6, 1, 5>>

RECURSIVE NumeralLess(_, _)
\* a < b for two numerals of the same length
NumeralLess(a, b) ==
  IF a = <<>> THEN FALSE
  ELSE IF a[1] # b[1] THEN a[1] < b[1]
  ELSE NumeralLess(Tail(a), Tail(b))

FitsU64(n) ==
  \/ Len(n) < Len(U64_MAX)
  \/ Len(n) = Len(U64_MAX) /\ ~NumeralLess(U64_MAX, n)

\* result.checked_mul(10) then checked_add(d): None on overflow
MulAddChecked(n, d) ==
  LET r == IF n = <<0>> THEN <<d>> ELSE Append(n, d)
  IN IF FitsU64(r) THEN Some(r) ELSE None

RECURSIVE ParseDigits(_, _)
ParseDigits(acc, s) ==
  IF s = <<>> THEN Some(acc)
  ELSE IF ~IsDigit(s[1]) THEN None
  ELSE LET r == MulAddChecked(acc, DigitVal(s[1]))
       IN IF r = None THEN None ELSE ParseDigits(r[1], Tail(s))

\* <u64 as FromStr>::from_str(..).ok(): empty, a lone sign, a '-' or any
\* non-digit is an error; one leading '+' is accepted.
ParseU64(s) ==
  IF s = <<>> THEN None
  ELSE IF Len(s) = 1 /\ s[1] \in {"+", "-"} THEN None
  ELSE IF s[1] = "+" THEN ParseDigits(<<0>>, Tail(s))
  ELSE ParseDigits(<<0>>, s)

\* <u64 as Display>::fmt
FormatU64(n) == [i \in 1..Len(n) |-> DigitChars[n[i] + 1]]

(***************************************************************************)
(* Link decoder (lib.rs 239-260).                                          *)
(***************************************************************************)
\* "steamcommunity.com/sharedfiles/filedetails/?id="
STEAM_WORKSHOP_LINK ==
  <<"s", "t", "e", "a", "m", "c", "o", "m", "m", "u", "n", "i", "t", "y", ".", "c", "o", "m", "/", "s", "h", "a", "r", "e", "d", "f", "i", "l", "e", "s", "/", "f", "i", "l", "e", "d", "e", "t", "a", "i", "l", "s", "/", "?", "i", "d", "=">>

\* "store.steampowered.com/app/"
STEAM_APP_LINK ==
  <<"s", "t", "o", "r", "e", ".", "s", "t", "e", "a", "m", "p", "o", "w", "e", "r", "e", "d", ".", "c", "o", "m", "/", "a", "p", "p", "/">>

\* "https://"
SCHEME_HTTPS ==
  <<"h", "t", "t", "p", "s", ":", "/", "/">>

\* "http://"
SCHEME_HTTP ==
  <<"h", "t", "t", "p", ":", "/", "/">>

\* Option::or: both arguments are evaluated, the first Some wins
OptionOr(a, b) == IF a # None THEN a ELSE b

\* mutant: the link is not trimmed before the scheme is stripped
strip_url_protocol_untrimmed(l) ==
  OptionOr(StripPrefix(l, SCHEME_HTTPS), StripPrefix(l, SCHEME_HTTP))

strip_url_protocol(l) ==
  LET trimmed == Trim(l)
  IN OptionOr(StripPrefix(trimmed, SCHEME_HTTPS), StripPrefix(trimmed, SCHEME_HTTP))

\* strip_url_protocol(link).and_then(strip_prefix).and_then(parse)
get_steam_link_steam_workshop_id(l) ==
  LET stripped == strip_url_protocol(l)
      id == IF stripped = None THEN None
            ELSE StripPrefix(stripped[1], STEAM_WORKSHOP_LINK)
  IN IF id = None THEN None ELSE ParseU64(id[1])

get_steam_link_steam_app_id(l) ==
  LET stripped == strip_url_protocol(l)
      id == IF stripped = None THEN None
            ELSE StripPrefix(stripped[1], STEAM_APP_LINK)
  IN IF id = None THEN None ELSE ParseU64(id[1])

(***************************************************************************)
(* Specification of the link decoders: a link is drawn from LinkInputs and *)
(* each decoder is applied to it.                                          *)
(***************************************************************************)
\* "ftp://"
SCHEME_FTP == <<"f", "t", "p", ":", "/", "/">>

\* "example.com/"
OTHER_HOST == <<"e", "x", "a", "m", "p", "l", "e", ".", "c", "o", "m", "/">>

LinkPads == {<<>>, <<" ">>, <<"\n", "\t">>}

LinkSchemes == {SCHEME_HTTPS, SCHEME_HTTP, SCHEME_FTP, <<>>}

LinkHosts == {STEAM_WORKSHOP_LINK, STEAM_APP_LINK, OTHER_HOST}

IdAlphabet == {"0", "7", "+", "-", "x", " "}

\* ids around the u64 limit: u64::MAX, u64::MAX + 1, one digit more, and
\* u64::MAX behind leading zeros and behind a sign
LongIds ==
  LET max == FormatU64(U64_MAX)
      over == SubSeq(max, 1, Len(max) - 1) \o <<"6">>
  IN {max, over, max \o <<"0">>, <<"0", "0">> \o max, <<"+">> \o max,
      <<"+">> \o over, <<"0">> \o over}

IdStrings == SeqsUpTo(IdAlphabet, MaxIdLen) \cup LongIds

LinkInputs ==
  {pre \o scheme \o host \o id \o post :
     pre \in LinkPads, scheme \in LinkSchemes, host \in LinkHosts,
     id \in IdStrings, post \in LinkPads}

LinkIdle ==
  /\ link = <<>>
  /\ decoded = {}
  /\ workshop_id = None
  /\ app_id = None

ParseIdle ==
  /\ document = <<>>
  /\ pc = "idle"
  /\ mi = 1
  /\ di = 1
  /\ game = None
  /\ preset_name = None
  /\ steam_mods = <<>>
  /\ local_mods = <<>>
  /\ dlcs = <<>>
  /\ result = <<>>

PresetsIdle ==
  /\ preset1 = <<>>
  /\ preset2 = <<>>

CompareIdle ==
  /\ preset1_name = <<>>
  /\ preset2_name = <<>>
  /\ report12 = None
  /\ report21 = None

RunIdle ==
  /\ path1 = None
  /\ path2 = None
  /\ out = None

RenderIdle ==
  /\ text1 = None
  /\ text2 = None

InitLink ==
  /\ link \in LinkInputs
  /\ decoded = {}
  /\ workshop_id = None
  /\ app_id = None
  /\ ParseIdle
  /\ PresetsIdle
  /\ CompareIdle
  /\ RunIdle
  /\ RenderIdle

DecodeWorkshop ==
  /\ "workshop" \notin decoded
  /\ workshop_id' = get_steam_link_steam_workshop_id(link)
  /\ decoded' = decoded \cup {"workshop"}
  /\ UNCHANGED <<link, app_id, parseVars, presetVars, compareVars, runVars, renderVars>>

DecodeApp ==
  /\ "app" \notin decoded
  /\ app_id' = get_steam_link_steam_app_id(link)
  /\ decoded' = decoded \cup {"app"}
  /\ UNCHANGED <<link, workshop_id, parseVars, presetVars, compareVars, runVars, renderVars>>

NextLink == DecodeWorkshop \/ DecodeApp

SpecLink == InitLink /\ [][NextLink]_vars

(***************************************************************************)
(* C3: what the decoders accept.                                           *)
(***************************************************************************)
AllDigits(s) == s # <<>> /\ \A i \in 1..Len(s) : IsDigit(s[i])

RECURSIVE StripLeadingZeros(_)
StripLeadingZeros(s) ==
  IF Len(s) > 1 /\ s[1] = "0" THEN StripLeadingZeros(Tail(s)) ELSE s

\* the value of a non-empty digit string
ValueOf(digs) ==
  LET c == StripLeadingZeros(digs) IN [i \in 1..Len(c) |-> DigitVal(c[i])]

\* the ids n such that the trimmed link is scheme, prefix, one of the given
\* signs and a non-empty digit string of value n that fits in 64 bits
AcceptedIds(l, prefix, signs) ==
  LET t == Trim(l)
  IN {ValueOf(DropFirst(t, Len(head))) :
        head \in {h \in {scheme \o prefix \o sign :
                           scheme \in {SCHEME_HTTPS, SCHEME_HTTP}, sign \in signs} :
                    /\ StripPrefix(t, h) # None
                    /\ AllDigits(DropFirst(t, Len(h)))
                    /\ FitsU64(ValueOf(DropFirst(t, Len(h))))}}

Decodes(res, ids) ==
  IF ids = {} THEN res = None ELSE res # None /\ res[1] \in ids

\* C3 (as claimed): each decoder returns Some(n) exactly for a trimmed link
\* of the form scheme, prefix, non-empty digit string of value n <= u64::MAX,
\* and None for every other link.
C3_DigitsOnly ==
  /\ "workshop" \in decoded =>
       Decodes(workshop_id, AcceptedIds(link, STEAM_WORKSHOP_LINK, {<<>>}))
  /\ "app" \in decoded =>
       Decodes(app_id, AcceptedIds(link, STEAM_APP_LINK, {<<>>}))

\* C3 (amended): as above, except that the digit string may be preceded by
\* a single '+', which u64 parsing accepts.
C3_OptionalPlus ==
  /\ "workshop" \in decoded =>
       Decodes(workshop_id, AcceptedIds(link, STEAM_WORKSHOP_LINK, {<<>>, <<"+">>}))
  /\ "app" \in decoded =>
       Decodes(app_id, AcceptedIds(link, STEAM_APP_LINK, {<<>>, <<"+">>}))

\* a padded link with the largest id is decoded by the workshop decoder and
\* rejected by the app decoder
C3_Witness ==
  /\ decoded = {"workshop", "app"}
  /\ link # Trim(link)
  /\ workshop_id = Some(U64_MAX)
  /\ app_id = None

(***************************************************************************)
(* Preset::from_str (lib.rs 128-237).                                      *)
(*                                                                         *)
(* The document is what the selector engine reports of it: for each head   *)
(* selector the content attribute of its first match, and the rows matched *)
(* by the two container selectors in document order; for each row, the     *)
(* first text of its name cell, the class of its origin span and the href  *)
(* of its link, each None when the selector or the attribute is missing.   *)
(***************************************************************************)
\* "preset"
TXT_PRESET == <<"p", "r", "e", "s", "e", "t">>

\* "list"
TXT_LIST == <<"l", "i", "s", "t">>

\* "from-local"
FROM_LOCAL == <<"f", "r", "o", "m", "-", "l", "o", "c", "a", "l">>

\* "from-steam"
FROM_STEAM == <<"f", "r", "o", "m", "-", "s", "t", "e", "a", "m">>

Ok(v) == [tag |-> "Ok", kind |-> "", value |-> v]

Err(kind, v) == [tag |-> "Err", kind |-> kind, value |-> v]

\* Result::or: the first result when it is Ok, otherwise the second
ResultOr(a, b) == IF a.tag = "Ok" THEN a ELSE b

\* mutant: a missing marker is read as an empty content value
PresetTypeOf_missing_as_empty(content, g, doc) ==
  LET c == IF content = None THEN <<>> ELSE content[1]
  IN IF c \in {TXT_LIST, TXT_PRESET} THEN Ok(g)
     ELSE Err("InvalidPresetTypeValue", c)

\* the closure mapped over the two (selector, game) pairs
PresetTypeOf(content, g, doc) ==
  IF content = None THEN Err("SelectorFailedPresetType", doc)
  ELSE IF content[1] \in {TXT_LIST, TXT_PRESET} THEN Ok(g)
  ELSE Err("InvalidPresetTypeValue", content[1])

select_preset_type(doc) ==
  ResultOr(PresetTypeOf(doc.arma_type, "Arma", doc),
           PresetTypeOf(doc.dayz_type, "DayZ", doc))

select_preset_name_arma(doc) == doc.arma_name

select_preset_name_dayz(doc) == doc.dayz_name

select_item_name(element) ==
  IF element.name = None THEN Err("SelectorFailedItemName", element)
  ELSE Ok(element.name[1])

select_item_link(element) ==
  IF element.href = None THEN Err("SelectorFailedItemLink", element)
  ELSE Ok(element.href[1])

select_item_origin(element) ==
  IF element.origin = None THEN Err("SelectorFailedItemOrigin", element)
  ELSE Ok(element.origin[1])

PresetLocalMod(name) == [display_name |-> name]

PresetSteamMod(name, id) == [display_name |-> name, id |-> id]

PresetDlc(name, id) == [display_name |-> name, id |-> id]

Preset(g, pname, steam, local, dlc) ==
  [game |-> g, preset_name |-> pname, steam_mods |-> steam,
   local_mods |-> local, dlcs |-> dlc]

\* mutant: every origin other than "from-steam" is taken as local
ModRowBody_default_local(mod_element) ==
  LET display_name == select_item_name(mod_element)
      origin == select_item_origin(mod_element)
      href == select_item_link(mod_element)
      id == get_steam_link_steam_workshop_id(href.value)
  IN IF display_name.tag = "Err" THEN display_name
     ELSE IF origin.tag = "Err" THEN origin
     ELSE IF origin.value = FROM_STEAM
       THEN IF href.tag = "Err" THEN href
            ELSE IF id = None THEN Err("InvalidItemLinkSteamWorkshop", href.value)
            ELSE [tag |-> "steam", kind |-> "",
                  value |-> PresetSteamMod(display_name.value, id[1])]
     ELSE [tag |-> "local", kind |-> "", value |-> PresetLocalMod(display_name.value)]

\* mutant: the origin is selected before the name
ModRowBody_origin_first(mod_element) ==
  LET display_name == select_item_name(mod_element)
      origin == select_item_origin(mod_element)
      href == select_item_link(mod_element)
      id == get_steam_link_steam_workshop_id(href.value)
  IN IF origin.tag = "Err" THEN origin
     ELSE IF display_name.tag = "Err" THEN display_name
     ELSE IF origin.value = FROM_LOCAL
       THEN [tag |-> "local", kind |-> "", value |-> PresetLocalMod(display_name.value)]
     ELSE IF origin.value = FROM_STEAM
       THEN IF href.tag = "Err" THEN href
            ELSE IF id = None THEN Err("InvalidItemLinkSteamWorkshop", href.value)
            ELSE [tag |-> "steam", kind |-> "",
                  value |-> PresetSteamMod(display_name.value, id[1])]
     ELSE Err("InvalidItemOriginValue", origin.value)

\* the body of the loop over the mod rows: an error, or the record to push
\* and the vector ("local" or "steam") it is pushed to
ModRowBody(mod_element) ==
  LET display_name == select_item_name(mod_element)
      origin == select_item_origin(mod_element)
      href == select_item_link(mod_element)
      id == get_steam_link_steam_workshop_id(href.value)
  IN IF display_name.tag = "Err" THEN display_name
     ELSE IF origin.tag = "Err" THEN origin
     ELSE IF origin.value = FROM_LOCAL
       THEN [tag |-> "local", kind |-> "", value |-> PresetLocalMod(display_name.value)]
     ELSE IF origin.value = FROM_STEAM
       THEN IF href.tag = "Err" THEN href
            ELSE IF id = None THEN Err("InvalidItemLinkSteamWorkshop", href.value)
            ELSE [tag |-> "steam", kind |-> "",
                  value |-> PresetSteamMod(display_name.value, id[1])]
     ELSE Err("InvalidItemOriginValue", origin.value)

\* the body of the loop over the DLC rows
DlcRowBody(dlc_element) ==
  LET display_name == select_item_name(dlc_element)
      href == select_item_link(dlc_element)
      id == get_steam_link_steam_app_id(href.value)
  IN IF display_name.tag = "Err" THEN display_name
     ELSE IF href.tag = "Err" THEN href
     ELSE IF id = None THEN Err("InvalidItemLinkSteamApp", href.value)
     ELSE Ok(PresetDlc(display_name.value, id[1]))

\* lines 190-197: the game type, then the preset name of that game
SelectType ==
  /\ pc = "type"
  /\ LET g == select_preset_type(document)
     IN IF g.tag = "Err"
        THEN /\ result' = g
             /\ pc' = "done"
             /\ UNCHANGED <<game, preset_name>>
        ELSE /\ game' = Some(g.value)
             /\ preset_name' = IF g.value = "Arma"
                                THEN select_preset_name_arma(document)
                                ELSE select_preset_name_dayz(document)
             /\ pc' = "rows"
             /\ UNCHANGED result
  /\ UNCHANGED <<document, mi, di, steam_mods, local_mods, dlcs, linkVars, presetVars, compareVars, runVars, renderVars>>

\* lines 201-218: one iteration of the loop over the mod rows
ParseModRow ==
  /\ pc = "rows"
  /\ mi <= Len(document.mods)
  /\ LET r == ModRowBody(document.mods[mi])
     IN CASE r.tag = "Err" ->
               /\ result' = r
               /\ pc' = "done"
               /\ UNCHANGED <<mi, steam_mods, local_mods>>
          [] r.tag = "local" ->
               /\ local_mods' = Append(local_mods, r.value)
               /\ mi' = mi + 1
               /\ UNCHANGED <<pc, result, steam_mods>>
          [] r.tag = "steam" ->
               /\ steam_mods' = Append(steam_mods, r.value)
               /\ mi' = mi + 1
               /\ UNCHANGED <<pc, result, local_mods>>
  /\ UNCHANGED <<document, di, game, preset_name, dlcs, linkVars, presetVars, compareVars, runVars, renderVars>>

\* lines 220-227: one iteration of the loop over the DLC rows
ParseDlcRow ==
  /\ pc = "rows"
  /\ mi > Len(document.mods)
  /\ di <= Len(document.dlcs)
  /\ LET r == DlcRowBody(document.dlcs[di])
     IN IF r.tag = "Err"
        THEN /\ result' = r
             /\ pc' = "done"
             /\ UNCHANGED <<di, dlcs>>
        ELSE /\ dlcs' = Append(dlcs, r.value)
             /\ di' = di + 1
             /\ UNCHANGED <<pc, result>>
  /\ UNCHANGED <<document, mi, game, preset_name, steam_mods, local_mods, linkVars, presetVars, compareVars, runVars, renderVars>>

\* lines 229-235
ReturnPreset ==
  /\ pc = "rows"
  /\ mi > Len(document.mods)
  /\ di > Len(document.dlcs)
  /\ result' = Ok(Preset(game[1], preset_name, steam_mods, local_mods, dlcs))
  /\ pc' = "done"
  /\ UNCHANGED <<document, mi, di, game, preset_name, steam_mods, local_mods,
                 dlcs, linkVars, presetVars, compareVars, runVars, renderVars>>

(***************************************************************************)
(* Specification of Preset::from_str: a document is drawn from Documents   *)
(* and parsed.                                                             *)
(***************************************************************************)
MaxRows == 2

\* a marker is missing, or carries "preset", "list" or another value
ArmaTypes == {None, Some(TXT_PRESET), Some(TXT_LIST), Some(<<"f", "o", "o">>)}

DayzTypes == {None, Some(TXT_PRESET), Some(TXT_LIST), Some(<<"b", "a", "r">>)}

WorkshopHref(id) == SCHEME_HTTPS \o STEAM_WORKSHOP_LINK \o id

AppHref(id) == SCHEME_HTTP \o STEAM_APP_LINK \o id

ModRow(name, origin, href) == [name |-> name, origin |-> origin, href |-> href]

\* rows that fail at each step of the loop body, and rows that pass
ModRows ==
  {ModRow(None, None, None),
   ModRow(None, Some(FROM_STEAM), Some(WorkshopHref(<<"7">>))),
   ModRow(Some(<<"A">>), None, Some(WorkshopHref(<<"7">>))),
   ModRow(Some(<<"A">>), Some(<<"f", "r", "o", "m", "-", "w", "e", "b">>), None),
   ModRow(Some(<<"A">>), Some(FROM_LOCAL), None),
   ModRow(Some(<<"B">>), Some(FROM_LOCAL), Some(AppHref(<<"5">>))),
   ModRow(Some(<<"A">>), Some(FROM_STEAM), None),
   ModRow(Some(<<"A">>), Some(FROM_STEAM), Some(AppHref(<<"5">>))),
   ModRow(Some(<<"A">>), Some(FROM_STEAM), Some(WorkshopHref(<<"7">>))),
   ModRow(Some(<<"B">>), Some(FROM_STEAM), Some(<<" ">> \o WorkshopHref(<<"+", "8">>)))}

DlcRow(name, href) == [name |-> name, href |-> href]

DlcRows ==
  {DlcRow(None, None),
   DlcRow(Some(<<"A">>), None),
   DlcRow(Some(<<"A">>), Some(WorkshopHref(<<"7">>))),
   DlcRow(Some(<<"A">>), Some(AppHref(<<"5">>))),
   DlcRow(Some(<<"B">>), Some(AppHref(<<"0", "6">>) \o <<"\n">>))}

Documents ==
  {[arma_type |-> at, dayz_type |-> dt, arma_name |-> an, dayz_name |-> dn,
    mods |-> rows[1], dlcs |-> rows[2]] :
     at \in ArmaTypes, dt \in DayzTypes,
     an \in {None, Some(<<"N">>)}, dn \in {None, Some(<<"M">>)},
     rows \in {r \in SeqsUpTo(ModRows, MaxRows) \X SeqsUpTo(DlcRows, MaxRows) :
                 Len(r[1]) + Len(r[2]) <= MaxRows}}

InitParse ==
  /\ document \in Documents
  /\ pc = "type"
  /\ mi = 1
  /\ di = 1
  /\ game = None
  /\ preset_name = None
  /\ steam_mods = <<>>
  /\ local_mods = <<>>
  /\ dlcs = <<>>
  /\ result = <<>>
  /\ LinkIdle
  /\ PresetsIdle
  /\ CompareIdle
  /\ RunIdle
  /\ RenderIdle

NextParse == SelectType \/ ParseModRow \/ ParseDlcRow \/ ReturnPreset

SpecParse == InitParse /\ [][NextParse]_vars

(***************************************************************************)
(* C1, C8: the game-type markers.                                          *)
(***************************************************************************)
\* the content values of the type markers present that are neither
\* "preset" nor "list"
BadTypeValues(doc) ==
  {c[1] : c \in {x \in {doc.arma_type, doc.dayz_type} :
                   x # None /\ x[1] \notin {TXT_PRESET, TXT_LIST}}}

\* C1: once the game type has been selected for a document in which a type
\* marker carries a value outside {"preset", "list"}, from_str has failed
\* with InvalidPresetTypeValue carrying such a value, whichever marker
\* carries it and whatever the other marker is.
C1_InvalidTypeValueReported ==
  (pc # "type" /\ pc # "idle" /\ BadTypeValues(document) # {}) =>
    /\ pc = "done"
    /\ result.tag = "Err"
    /\ result.kind = "InvalidPresetTypeValue"
    /\ result.value \in BadTypeValues(document)

\* C8: once the game type has been selected for a document with neither
\* type marker, from_str has failed with SelectorFailedPresetType and no
\* mod or DLC row has been examined.
C8_NoMarkerFails ==
  (pc # "type" /\ pc # "idle"
     /\ document.arma_type = None /\ document.dayz_type = None) =>
    /\ pc = "done"
    /\ result.tag = "Err"
    /\ result.kind = "SelectorFailedPresetType"
    /\ mi = 1 /\ di = 1
    /\ steam_mods = <<>> /\ local_mods = <<>> /\ dlcs = <<>>

\* a document without type markers, with a failing mod row and a DLC row,
\* has been rejected
C8_Witness ==
  /\ pc = "done"
  /\ document.arma_type = None /\ document.dayz_type = None
  /\ document.arma_name # None
  /\ Len(document.mods) = 1 /\ Len(document.dlcs) = 1
  /\ document.mods[1].name = None
  /\ result.kind = "SelectorFailedPresetType"

(***************************************************************************)
(* C2: the mod rows of a parsed document.                                  *)
(***************************************************************************)
MapSeq(F(_), q) == [i \in 1..Len(q) |-> F(q[i])]

IsLocalRow(r) == r.origin = Some(FROM_LOCAL)

IsSteamRow(r) == r.origin = Some(FROM_STEAM)

LocalModOfRow(r) == [display_name |-> r.name[1]]

SteamModOfRow(r) ==
  [display_name |-> r.name[1],
   id |-> get_steam_link_steam_workshop_id(r.href[1])[1]]

\* C2: in the Preset returned for a document, local_mods is the from-local
\* rows in document order, each giving its display name, steam_mods is the
\* from-steam rows in document order, each giving its display name and the
\* id decoded from its link, and together they are as many as the mod rows.
C2_ModsPartitioned ==
  (pc = "done" /\ result.tag = "Ok") =>
    /\ result.value.local_mods =
         MapSeq(LocalModOfRow, SelectSeq(document.mods, IsLocalRow))
    /\ result.value.steam_mods =
         MapSeq(SteamModOfRow, SelectSeq(document.mods, IsSteamRow))
    /\ Len(result.value.local_mods) + Len(result.value.steam_mods)
         = Len(document.mods)

\* a Steam row followed by a local row that carries a link has been parsed
C2_Witness ==
  /\ pc = "done"
  /\ result.tag = "Ok"
  /\ Len(document.mods) = 2
  /\ IsSteamRow(document.mods[1])
  /\ IsLocalRow(document.mods[2]) /\ document.mods[2].href # None
  /\ Len(result.value.local_mods) = 1
  /\ Len(result.value.steam_mods) = 1

(***************************************************************************)
(* C10: the first failing step decides the result.                         *)
(***************************************************************************)
TypeFailure(doc) ==
  LET g == select_preset_type(doc) IN IF g.tag = "Err" THEN Some(g) ELSE None

ModRowFailure(r) ==
  IF r.name = None THEN Some(Err("SelectorFailedItemName", r))
  ELSE IF r.origin = None THEN Some(Err("SelectorFailedItemOrigin", r))
  ELSE IF r.origin[1] \notin {FROM_LOCAL, FROM_STEAM}
    THEN Some(Err("InvalidItemOriginValue", r.origin[1]))
  ELSE IF r.origin[1] = FROM_LOCAL THEN None
  ELSE IF r.href = None THEN Some(Err("SelectorFailedItemLink", r))
  ELSE IF get_steam_link_steam_workshop_id(r.href[1]) = None
    THEN Some(Err("InvalidItemLinkSteamWorkshop", r.href[1]))
  ELSE None

DlcRowFailure(r) ==
  IF r.name = None THEN Some(Err("SelectorFailedItemName", r))
  ELSE IF r.href = None THEN Some(Err("SelectorFailedItemLink", r))
  ELSE IF get_steam_link_steam_app_id(r.href[1]) = None
    THEN Some(Err("InvalidItemLinkSteamApp", r.href[1]))
  ELSE None

\* the failure of each step, in the order game type, mod rows, DLC rows
StepFailures(doc) ==
  <<TypeFailure(doc)>> \o MapSeq(ModRowFailure, doc.mods)
    \o MapSeq(DlcRowFailure, doc.dlcs)

FailingSteps(doc) == {k \in DOMAIN StepFailures(doc) : StepFailures(doc)[k] # None}

FirstFailingStep(doc) ==
  CHOOSE k \in FailingSteps(doc) : \A j \in FailingSteps(doc) : k <= j

\* C10: from_str returns a Preset exactly when no step fails, and otherwise
\* the error (kind and payload) of the first failing step in the order game
\* type, mod rows in document order, DLC rows in document order.
C10_FirstFailureReported ==
  pc = "done" =>
    IF FailingSteps(document) = {}
    THEN result.tag = "Ok"
    ELSE LET e == StepFailures(document)[FirstFailingStep(document)][1]
         IN /\ result.tag = "Err"
            /\ result.kind = e.kind
            /\ result.value = e.value

\* a document whose mod row has a bad workshop link and whose DLC row has no
\* name has been rejected for the mod row
C10_Witness ==
  /\ pc = "done"
  /\ Len(document.mods) = 1 /\ Len(document.dlcs) = 1
  /\ DlcRowFailure(document.dlcs[1]) # None
  /\ result.tag = "Err"
  /\ result.kind = "InvalidItemLinkSteamWorkshop"

(***************************************************************************)
(* Text constants of the Display implementations and of the compare        *)
(* driver.                                                                 *)
(***************************************************************************)
\* "Arma 3"
TXT_ARMA ==
  <<"A", "r", "m", "a", " ", "3">>

\* "DayZ"
TXT_DAYZ ==
  <<"D", "a", "y", "Z">>

\* " Preset: "
TXT_PRESET_COLON ==
  <<" ", "P", "r", "e", "s", "e", "t", ":", " ">>

\* " Preset"
TXT_PRESET_HEADER ==
  <<" ", "P", "r", "e", "s", "e", "t">>

\* "Steam: "
TXT_STEAM ==
  <<"S", "t", "e", "a", "m", ":", " ">>

\* "Local: "
TXT_LOCAL ==
  <<"L", "o", "c", "a", "l", ":", " ">>

\* "DLC: "
TXT_DLC ==
  <<"D", "L", "C", ":", " ">>

\* ": "
TXT_COLON ==
  <<":", " ">>

\* "- "
TXT_DASH ==
  <<"-", " ">>

\* "'"
TXT_QUOTE ==
  <<"'">>

\* "' and '"
TXT_AND ==
  <<"'", " ", "a", "n", "d", " ", "'">>

\* "' have no Steam Mods\n"
TXT_NO_STEAM ==
  <<"'", " ", "h", "a", "v", "e", " ", "n", "o", " ", "S", "t", "e", "a", "m", " ", "M", "o", "d", "s", "\n">>

\* "' have the same Steam Mods\n"
TXT_SAME_STEAM ==
  <<"'", " ", "h", "a", "v", "e", " ", "t", "h", "e", " ", "s", "a", "m", "e", " ", "S", "t", "e", "a", "m", " ", "M", "o", "d", "s", "\n">>

\* "Steam Mods only in '"
TXT_STEAM_ONLY ==
  <<"S", "t", "e", "a", "m", " ", "M", "o", "d", "s", " ", "o", "n", "l", "y", " ", "i", "n", " ", "'">>

\* "Steam Mods in '"
TXT_STEAM_BOTH ==
  <<"S", "t", "e", "a", "m", " ", "M", "o", "d", "s", " ", "i", "n", " ", "'">>

\* "' have no DLCs\n"
TXT_NO_DLC ==
  <<"'", " ", "h", "a", "v", "e", " ", "n", "o", " ", "D", "L", "C", "s", "\n">>

\* "' have the same DLCs\n"
TXT_SAME_DLC ==
  <<"'", " ", "h", "a", "v", "e", " ", "t", "h", "e", " ", "s", "a", "m", "e", " ", "D", "L", "C", "s", "\n">>

\* "DLCs only in '"
TXT_DLC_ONLY ==
  <<"D", "L", "C", "s", " ", "o", "n", "l", "y", " ", "i", "n", " ", "'">>

\* "DLCs in '"
TXT_DLC_BOTH ==
  <<"D", "L", "C", "s", " ", "i", "n", " ", "'">>

\* "Local mods in '"
TXT_LOCAL_IN ==
  <<"L", "o", "c", "a", "l", " ", "m", "o", "d", "s", " ", "i", "n", " ", "'">>

\* "Presets '"
TXT_PRESETS ==
  <<"P", "r", "e", "s", "e", "t", "s", " ", "'">>

\* "' have identical contents"
TXT_IDENTICAL ==
  <<"'", " ", "h", "a", "v", "e", " ", "i", "d", "e", "n", "t", "i", "c", "a", "l", " ", "c", "o", "n", "t", "e", "n", "t", "s">>

\* "' do not belong to the same game"
TXT_NOT_SAME_GAME ==
  <<"'", " ", "d", "o", " ", "n", "o", "t", " ", "b", "e", "l", "o", "n", "g", " ", "t", "o", " ", "t", "h", "e", " ", "s", "a", "m", "e", " ", "g", "a", "m", "e">>

\* " (1)"
TXT_SUFFIX_1 ==
  <<" ", "(", "1", ")">>

\* " (2)"
TXT_SUFFIX_2 ==
  <<" ", "(", "2", ")">>

\* "Preset 1"
TXT_PRESET_1 ==
  <<"P", "r", "e", "s", "e", "t", " ", "1">>

\* "Preset 2"
TXT_PRESET_2 ==
  <<"P", "r", "e", "s", "e", "t", " ", "2">>

\* "ABCDEFGHIJKLMNOPQRSTUVWXYZ"
UpperAscii ==
  <<"A", "B", "C", "D", "E", "F", "G", "H", "I", "J", "K", "L", "M", "N", "O", "P", "Q", "R", "S", "T", "U", "V", "W", "X", "Y", "Z">>

\* "abcdefghijklmnopqrstuvwxyz"
LowerAscii ==
  <<"a", "b", "c", "d", "e", "f", "g", "h", "i", "j", "k", "l", "m", "n", "o", "p", "q", "r", "s", "t", "u", "v", "w", "x", "y", "z">>

NL == <<"\n">>

(***************************************************************************)
(* Display of Game, PresetSteamMod, PresetLocalMod, PresetDlc and Preset   *)
(* (lib.rs 27-106).                                                        *)
(***************************************************************************)
DisplayGame(g) == IF g = "Arma" THEN TXT_ARMA ELSE TXT_DAYZ

DisplaySteamMod(m) ==
  SCHEME_HTTPS \o STEAM_WORKSHOP_LINK \o FormatU64(m.id) \o TXT_COLON \o m.display_name

DisplayLocalMod(m) == m.display_name

DisplayDlc(m) ==
  SCHEME_HTTPS \o STEAM_APP_LINK \o FormatU64(m.id) \o TXT_COLON \o m.display_name

\* writeln!(f, "{prefix}{item}") for every item of a sequence of rendered items
RECURSIVE WriteEntries(_, _)
WriteEntries(prefix, items) ==
  IF items = <<>> THEN <<>>
  ELSE prefix \o items[1] \o NL \o WriteEntries(prefix, Tail(items))

DisplayPresetHeader(p) ==
  IF p.preset_name # None
  THEN DisplayGame(p.game) \o TXT_PRESET_COLON \o p.preset_name[1] \o NL
  ELSE DisplayGame(p.game) \o TXT_PRESET_HEADER \o NL

\* mutant: the local mods are written before the Steam mods
DisplayPreset_local_first(p) ==
  DisplayPresetHeader(p)
    \o WriteEntries(TXT_LOCAL, [i \in DOMAIN p.local_mods |-> DisplayLocalMod(p.local_mods[i])])
    \o WriteEntries(TXT_STEAM, [i \in DOMAIN p.steam_mods |-> DisplaySteamMod(p.steam_mods[i])])
    \o WriteEntries(TXT_DLC, [i \in DOMAIN p.dlcs |-> DisplayDlc(p.dlcs[i])])

DisplayPreset(p) ==
  DisplayPresetHeader(p)
    \o WriteEntries(TXT_STEAM, [i \in DOMAIN p.steam_mods |-> DisplaySteamMod(p.steam_mods[i])])
    \o WriteEntries(TXT_LOCAL, [i \in DOMAIN p.local_mods |-> DisplayLocalMod(p.local_mods[i])])
    \o WriteEntries(TXT_DLC, [i \in DOMAIN p.dlcs |-> DisplayDlc(p.dlcs[i])])

(***************************************************************************)
(* PresetsCompare (a3_preset_compare.rs 10-95).                            *)
(***************************************************************************)
\* header, "- item" per item and a blank line; nothing for an empty list
fmt_list(header, list) ==
  IF list = <<>> THEN <<>>
  ELSE header \o NL \o WriteEntries(TXT_DASH, list) \o NL

\* .map(|m| m.id).collect::<HashSet<u64>>()
IdSet(items) == {items[i].id : i \in DOMAIN items}

\* .filter(|m| !ids.contains(&m.id))
WithoutIds(items, ids) ==
  LET Absent(m) == m.id \notin ids IN SelectSeq(items, Absent)

\* .filter(|m| ids.contains(&m.id))
WithIds(items, ids) ==
  LET Present(m) == m.id \in ids IN SelectSeq(items, Present)

DisplaySteamMods(items) == [i \in DOMAIN items |-> DisplaySteamMod(items[i])]

DisplayLocalMods(items) == [i \in DOMAIN items |-> DisplayLocalMod(items[i])]

DisplayDlcs(items) == [i \in DOMAIN items |-> DisplayDlc(items[i])]

\* mutant: the list of the shared Steam mods is taken from preset 2
FmtSteamMods_both_from_preset2(p1, n1, p2, n2) ==
  LET preset1_steam_mods == IdSet(p1.steam_mods)
      preset2_steam_mods == IdSet(p2.steam_mods)
  IN IF preset1_steam_mods = {} /\ preset2_steam_mods = {}
     THEN TXT_QUOTE \o n1 \o TXT_AND \o n2 \o TXT_NO_STEAM \o NL
     ELSE IF preset1_steam_mods = preset2_steam_mods
     THEN TXT_QUOTE \o n1 \o TXT_AND \o n2 \o TXT_SAME_STEAM \o NL
     ELSE fmt_list(TXT_STEAM_ONLY \o n1 \o TXT_QUOTE,
                   DisplaySteamMods(WithoutIds(p1.steam_mods, preset2_steam_mods)))
          \o fmt_list(TXT_STEAM_ONLY \o n2 \o TXT_QUOTE,
                      DisplaySteamMods(WithoutIds(p2.steam_mods, preset1_steam_mods)))
          \o fmt_list(TXT_STEAM_BOTH \o n1 \o TXT_AND \o n2 \o TXT_QUOTE,
                      DisplaySteamMods(WithIds(p2.steam_mods, preset1_steam_mods)))

\* mutant: the second list keeps the Steam mods of preset 2 that preset 1
\* has, instead of those it lacks
FmtSteamMods_second_list_shared(p1, n1, p2, n2) ==
  LET preset1_steam_mods == IdSet(p1.steam_mods)
      preset2_steam_mods == IdSet(p2.steam_mods)
  IN IF preset1_steam_mods = {} /\ preset2_steam_mods = {}
     THEN TXT_QUOTE \o n1 \o TXT_AND \o n2 \o TXT_NO_STEAM \o NL
     ELSE IF preset1_steam_mods = preset2_steam_mods
     THEN TXT_QUOTE \o n1 \o TXT_AND \o n2 \o TXT_SAME_STEAM \o NL
     ELSE fmt_list(TXT_STEAM_ONLY \o n1 \o TXT_QUOTE,
                   DisplaySteamMods(WithoutIds(p1.steam_mods, preset2_steam_mods)))
          \o fmt_list(TXT_STEAM_ONLY \o n2 \o TXT_QUOTE,
                      DisplaySteamMods(WithIds(p2.steam_mods, preset1_steam_mods)))
          \o fmt_list(TXT_STEAM_BOTH \o n1 \o TXT_AND \o n2 \o TXT_QUOTE,
                      DisplaySteamMods(WithIds(p1.steam_mods, preset2_steam_mods)))

\* lines 39-60
FmtSteamMods(p1, n1, p2, n2) ==
  LET preset1_steam_mods == IdSet(p1.steam_mods)
      preset2_steam_mods == IdSet(p2.steam_mods)
  IN IF preset1_steam_mods = {} /\ preset2_steam_mods = {}
     THEN TXT_QUOTE \o n1 \o TXT_AND \o n2 \o TXT_NO_STEAM \o NL
     ELSE IF preset1_steam_mods = preset2_steam_mods
     THEN TXT_QUOTE \o n1 \o TXT_AND \o n2 \o TXT_SAME_STEAM \o NL
     ELSE fmt_list(TXT_STEAM_ONLY \o n1 \o TXT_QUOTE,
                   DisplaySteamMods(WithoutIds(p1.steam_mods, preset2_steam_mods)))
          \o fmt_list(TXT_STEAM_ONLY \o n2 \o TXT_QUOTE,
                      DisplaySteamMods(WithoutIds(p2.steam_mods, preset1_steam_mods)))
          \o fmt_list(TXT_STEAM_BOTH \o n1 \o TXT_AND \o n2 \o TXT_QUOTE,
                      DisplaySteamMods(WithIds(p1.steam_mods, preset2_steam_mods)))

\* lines 62-83
FmtDlcs(p1, n1, p2, n2) ==
  LET preset1_dlcs == IdSet(p1.dlcs)
      preset2_dlcs == IdSet(p2.dlcs)
  IN IF preset1_dlcs = {} /\ preset2_dlcs = {}
     THEN TXT_QUOTE \o n1 \o TXT_AND \o n2 \o TXT_NO_DLC \o NL
     ELSE IF preset1_dlcs = preset2_dlcs
     THEN TXT_QUOTE \o n1 \o TXT_AND \o n2 \o TXT_SAME_DLC \o NL
     ELSE fmt_list(TXT_DLC_ONLY \o n1 \o TXT_QUOTE,
                   DisplayDlcs(WithoutIds(p1.dlcs, preset2_dlcs)))
          \o fmt_list(TXT_DLC_ONLY \o n2 \o TXT_QUOTE,
                      DisplayDlcs(WithoutIds(p2.dlcs, preset1_dlcs)))
          \o fmt_list(TXT_DLC_BOTH \o n1 \o TXT_AND \o n2 \o TXT_QUOTE,
                      DisplayDlcs(WithIds(p1.dlcs, preset2_dlcs)))

\* mutant: both lists show the local mods of preset 1
FmtLocalMods_first_twice(p1, n1, p2, n2) ==
  fmt_list(TXT_LOCAL_IN \o n1 \o TXT_QUOTE, DisplayLocalMods(p1.local_mods))
    \o fmt_list(TXT_LOCAL_IN \o n2 \o TXT_QUOTE, DisplayLocalMods(p1.local_mods))

\* lines 85-91
FmtLocalMods(p1, n1, p2, n2) ==
  fmt_list(TXT_LOCAL_IN \o n1 \o TXT_QUOTE, DisplayLocalMods(p1.local_mods))
    \o fmt_list(TXT_LOCAL_IN \o n2 \o TXT_QUOTE, DisplayLocalMods(p2.local_mods))

\* <PresetsCompare as Display>::fmt
PresetsCompareFmt(p1, n1, p2, n2) ==
  FmtSteamMods(p1, n1, p2, n2) \o FmtDlcs(p1, n1, p2, n2)
    \o FmtLocalMods(p1, n1, p2, n2)

(***************************************************************************)
(* The compare driver (a3_preset_compare.rs 101-148), from the two parsed  *)
(* presets on.                                                             *)
(***************************************************************************)
\* u8::to_ascii_lowercase
ToAsciiLowercase(c) ==
  IF \E k \in 1..26 : UpperAscii[k] = c
  THEN LowerAscii[CHOOSE k \in 1..26 : UpperAscii[k] = c]
  ELSE c

\* str::eq_ignore_ascii_case
EqIgnoreAsciiCase(a, b) ==
  /\ Len(a) = Len(b)
  /\ \A i \in 1..Len(a) : ToAsciiLowercase(a[i]) = ToAsciiLowercase(b[i])

\* lines 116-121: the preset name, else the file stem, else the default
NameOf(p, stem, default) ==
  IF p.preset_name # None THEN p.preset_name[1]
  ELSE IF stem # None THEN stem[1]
  ELSE default

\* lines 116-126: the two labels
Labels(p1, stem1, p2, stem2) ==
  LET n1 == NameOf(p1, stem1, TXT_PRESET_1)
      n2 == NameOf(p2, stem2, TXT_PRESET_2)
  IN IF EqIgnoreAsciiCase(n1, n2)
     THEN <<n1 \o TXT_SUFFIX_1, n2 \o TXT_SUFFIX_2>>
     ELSE <<n1, n2>>

\* mutant: the local mods are left out of the test for identical contents
RunOutput_ignores_local(p1, stem1, p2, stem2) ==
  LET n == Labels(p1, stem1, p2, stem2)
  IN IF p1.game = p2.game
     THEN IF /\ p1.steam_mods = p2.steam_mods
             /\ p1.dlcs = p2.dlcs
          THEN TXT_PRESETS \o n[1] \o TXT_AND \o n[2] \o TXT_IDENTICAL
          ELSE PresetsCompareFmt(p1, n[1], p2, n[2])
     ELSE TXT_PRESETS \o n[1] \o TXT_AND \o n[2] \o TXT_NOT_SAME_GAME

\* lines 128-141
RunOutput(p1, stem1, p2, stem2) ==
  LET n == Labels(p1, stem1, p2, stem2)
  IN IF p1.game = p2.game
     THEN IF /\ p1.steam_mods = p2.steam_mods
             /\ p1.local_mods = p2.local_mods
             /\ p1.dlcs = p2.dlcs
          THEN TXT_PRESETS \o n[1] \o TXT_AND \o n[2] \o TXT_IDENTICAL
          ELSE PresetsCompareFmt(p1, n[1], p2, n[2])
     ELSE TXT_PRESETS \o n[1] \o TXT_AND \o n[2] \o TXT_NOT_SAME_GAME

(***************************************************************************)
(* Inputs of the comparison: pairs of presets as from_str returns them.    *)
(* The items of the two presets are drawn together, at most MaxItems in    *)
(* all, and dealt to the three vectors of each preset in order.            *)
(***************************************************************************)
MaxItems == 3

Games == {"Arma", "DayZ"}

PresetNames == {None, Some(<<"p">>)}

SteamItems ==
  {PresetSteamMod(<<"a">>, <<1>>), PresetSteamMod(<<"b">>, <<1>>),
   PresetSteamMod(<<"a">>, <<2, 0>>)}

LocalItems == {PresetLocalMod(<<"a">>), PresetLocalMod(<<"b">>)}

DlcItems == {PresetDlc(<<"d">>, <<5>>), PresetDlc(<<"d">>, <<6>>)}

\* an item, the preset (1 or 2) and the vector it goes to
Entries ==
  {[side |-> sd, list |-> "steam", item |-> it] : sd \in {1, 2}, it \in SteamItems}
    \cup {[side |-> sd, list |-> "local", item |-> it] : sd \in {1, 2}, it \in LocalItems}
    \cup {[side |-> sd, list |-> "dlc", item |-> it] : sd \in {1, 2}, it \in DlcItems}

\* the items of a sequence of entries that go to one vector of one preset
Dealt(es, sd, l) ==
  LET Mine(e) == e.side = sd /\ e.list = l
      mine == SelectSeq(es, Mine)
  IN [i \in DOMAIN mine |-> mine[i].item]

Vectors(es, sd) ==
  [steam_mods |-> Dealt(es, sd, "steam"), local_mods |-> Dealt(es, sd, "local"),
   dlcs |-> Dealt(es, sd, "dlc")]

VectorPairs == {<<Vectors(es, 1), Vectors(es, 2)>> : es \in SeqsUpTo(Entries, MaxItems)}

PresetOf(g, pname, v) == Preset(g, pname, v.steam_mods, v.local_mods, v.dlcs)

PresetPairs ==
  {<<PresetOf(g[1], pn[1], v[1]), PresetOf(g[2], pn[2], v[2])>> :
     g \in Games \X Games, pn \in PresetNames \X PresetNames, v \in VectorPairs}

\* the file stems "a" and "A" of the two input paths
STEM_1 == Some(<<"a">>)

STEM_2 == Some(<<"A">>)

(***************************************************************************)
(* Specification of PresetsCompare: the report of (preset1, preset2) and   *)
(* the report of (preset2, preset1) with the labels swapped.               *)
(***************************************************************************)
InitCompare ==
  /\ \E pp \in PresetPairs :
       /\ preset1 = pp[1]
       /\ preset2 = pp[2]
       /\ preset1_name = Labels(pp[1], STEM_1, pp[2], STEM_2)[1]
       /\ preset2_name = Labels(pp[1], STEM_1, pp[2], STEM_2)[2]
  /\ report12 = None
  /\ report21 = None
  /\ LinkIdle
  /\ ParseIdle
  /\ RunIdle
  /\ RenderIdle

Format12 ==
  /\ report12 = None
  /\ report12' = Some(PresetsCompareFmt(preset1, preset1_name, preset2, preset2_name))
  /\ UNCHANGED <<report21, preset1_name, preset2_name, presetVars, linkVars,
                 parseVars, runVars, renderVars>>

Format21 ==
  /\ report21 = None
  /\ report21' = Some(PresetsCompareFmt(preset2, preset2_name, preset1, preset1_name))
  /\ UNCHANGED <<report12, preset1_name, preset2_name, presetVars, linkVars,
                 parseVars, runVars, renderVars>>

NextCompare == Format12 \/ Format21

SpecCompare == InitCompare /\ [][NextCompare]_vars

(***************************************************************************)
(* Specification of the compare driver.                                    *)
(***************************************************************************)
InitRun ==
  /\ \E pp \in PresetPairs :
       /\ preset1 = pp[1]
       /\ preset2 = pp[2]
  /\ path1 = STEM_1
  /\ path2 \in {STEM_2, None}
  /\ out = None
  /\ preset1_name = <<>>
  /\ preset2_name = <<>>
  /\ report12 = None
  /\ report21 = None
  /\ LinkIdle
  /\ ParseIdle
  /\ RenderIdle

Run ==
  /\ out = None
  /\ preset1_name' = Labels(preset1, path1, preset2, path2)[1]
  /\ preset2_name' = Labels(preset1, path1, preset2, path2)[2]
  /\ out' = Some(RunOutput(preset1, path1, preset2, path2))
  /\ UNCHANGED <<path1, path2, report12, report21, presetVars, linkVars,
                 parseVars, renderVars>>

NextRun == Run

SpecRun == InitRun /\ [][NextRun]_vars

(***************************************************************************)
(* Reading a report: its lines, the section under a header, the id in an   *)
(* item line.                                                              *)
(***************************************************************************)
\* the lines of a text, without their terminators; a last line need not
\* be terminated
Lines(t) ==
  LET ends == {i \in 1..Len(t) : t[i] = "\n"}
                \cup (IF t # <<>> /\ t[Len(t)] # "\n" THEN {Len(t) + 1} ELSE {})
      End(k) == CHOOSE e \in ends : Cardinality({x \in ends : x < e}) = k - 1
      Start(k) == IF k = 1 THEN 1 ELSE End(k - 1) + 1
  IN [k \in 1..Cardinality(ends) |-> SubSeq(t, Start(k), End(k) - 1)]

Range(q) == {q[i] : i \in DOMAIN q}

FirstIndex(L, h) ==
  CHOOSE i \in DOMAIN L : L[i] = h /\ \A j \in 1..(i - 1) : L[j] # h

\* the lines between the first line h and the next blank line
Section(L, h) ==
  IF h \notin Range(L) THEN <<>>
  ELSE LET i == FirstIndex(L, h)
           e == CHOOSE j \in (i + 1)..(Len(L) + 1) :
                  /\ j = Len(L) + 1 \/ L[j] = <<>>
                  /\ \A k \in (i + 1)..(j - 1) : L[k] # <<>>
       IN SubSeq(L, i + 1, e - 1)

\* the link of an item line "- <link>: <name>"
LinkOfItemLine(l) ==
  LET k == CHOOSE i \in 1..Len(l) :
             /\ i < Len(l) /\ l[i] = ":" /\ l[i + 1] = " "
             /\ \A j \in 1..(i - 1) : ~(l[j] = ":" /\ l[j + 1] = " ")
  IN SubSeq(l, Len(TXT_DASH) + 1, k - 1)

SteamIdsListed(L, h) ==
  {get_steam_link_steam_workshop_id(LinkOfItemLine(l)) : l \in Range(Section(L, h))}

DlcIdsListed(L, h) ==
  {get_steam_link_steam_app_id(LinkOfItemLine(l)) : l \in Range(Section(L, h))}

\* the lines a labelled list is claimed to emit
ListLines(h, shown) ==
  IF shown = <<>> THEN <<>>
  ELSE <<h>> \o [i \in DOMAIN shown |-> TXT_DASH \o shown[i]] \o << <<>> >>

\* the items of a vector whose id no item of the other vector has
OnlyIn(items, others) ==
  LET Alone(m) == \A j \in DOMAIN others : others[j].id # m.id
  IN SelectSeq(items, Alone)

\* the items of a vector whose id some item of the other vector has
InBoth(items, others) ==
  LET Shared(m) == \E j \in DOMAIN others : others[j].id = m.id
  IN SelectSeq(items, Shared)

CategoryCase(items1, items2) ==
  IF items1 = <<>> /\ items2 = <<>> THEN "none"
  ELSE IF IdSet(items1) = IdSet(items2) THEN "same"
  ELSE "lists"

\* the line "'n1' and 'n2' <tail>", tail being a constant that ends its line
PairLine(n1, n2, tail) == TXT_QUOTE \o n1 \o TXT_AND \o n2 \o Lines(tail)[1]

OnlyHeader(txt, n) == txt \o n \o TXT_QUOTE

BothHeader(txt, n1, n2) == txt \o n1 \o TXT_AND \o n2 \o TXT_QUOTE

SteamLinesClaimed(p1, n1, p2, n2) ==
  LET c == CategoryCase(p1.steam_mods, p2.steam_mods)
  IN IF c = "none" THEN <<PairLine(n1, n2, TXT_NO_STEAM), <<>> >>
     ELSE IF c = "same" THEN <<PairLine(n1, n2, TXT_SAME_STEAM), <<>> >>
     ELSE ListLines(OnlyHeader(TXT_STEAM_ONLY, n1),
                    DisplaySteamMods(OnlyIn(p1.steam_mods, p2.steam_mods)))
          \o ListLines(OnlyHeader(TXT_STEAM_ONLY, n2),
                       DisplaySteamMods(OnlyIn(p2.steam_mods, p1.steam_mods)))
          \o ListLines(BothHeader(TXT_STEAM_BOTH, n1, n2),
                       DisplaySteamMods(InBoth(p1.steam_mods, p2.steam_mods)))

DlcLinesClaimed(p1, n1, p2, n2) ==
  LET c == CategoryCase(p1.dlcs, p2.dlcs)
  IN IF c = "none" THEN <<PairLine(n1, n2, TXT_NO_DLC), <<>> >>
     ELSE IF c = "same" THEN <<PairLine(n1, n2, TXT_SAME_DLC), <<>> >>
     ELSE ListLines(OnlyHeader(TXT_DLC_ONLY, n1), DisplayDlcs(OnlyIn(p1.dlcs, p2.dlcs)))
          \o ListLines(OnlyHeader(TXT_DLC_ONLY, n2), DisplayDlcs(OnlyIn(p2.dlcs, p1.dlcs)))
          \o ListLines(BothHeader(TXT_DLC_BOTH, n1, n2), DisplayDlcs(InBoth(p1.dlcs, p2.dlcs)))

(***************************************************************************)
(* C4: the two id-compared categories of the report.                       *)
(***************************************************************************)
\* C4: the report of (preset1, preset2) begins with the Steam-mod lines and
\* then the DLC lines, each category being one "have no X" line when both
\* vectors are empty, one "have the same X" line when the id sets are equal,
\* and otherwise the lists only-in-1, only-in-2, in-both (preset 1's items)
\* in that order, an empty list emitting no line at all; in the last case
\* one of the two only-in lists is not empty.
C4_CategoryLines ==
  report12 # None =>
    LET L == Lines(report12[1])
        E == SteamLinesClaimed(preset1, preset1_name, preset2, preset2_name)
               \o DlcLinesClaimed(preset1, preset1_name, preset2, preset2_name)
    IN /\ Len(E) <= Len(L)
       /\ SubSeq(L, 1, Len(E)) = E
       /\ CategoryCase(preset1.steam_mods, preset2.steam_mods) = "lists" =>
            \/ OnlyIn(preset1.steam_mods, preset2.steam_mods) # <<>>
            \/ OnlyIn(preset2.steam_mods, preset1.steam_mods) # <<>>
       /\ CategoryCase(preset1.dlcs, preset2.dlcs) = "lists" =>
            \/ OnlyIn(preset1.dlcs, preset2.dlcs) # <<>>
            \/ OnlyIn(preset2.dlcs, preset1.dlcs) # <<>>

\* a report whose Steam mods differ, with nothing only in preset 2 and a
\* shared id under two display names, and whose presets have no DLC
C4_Witness ==
  /\ report12 # None
  /\ CategoryCase(preset1.steam_mods, preset2.steam_mods) = "lists"
  /\ OnlyIn(preset2.steam_mods, preset1.steam_mods) = <<>>
  /\ InBoth(preset1.steam_mods, preset2.steam_mods) # <<>>
  /\ InBoth(preset1.steam_mods, preset2.steam_mods)
       # InBoth(preset2.steam_mods, preset1.steam_mods)
  /\ CategoryCase(preset1.dlcs, preset2.dlcs) = "none"

(***************************************************************************)
(* C7: the two directions of a comparison.                                 *)
(***************************************************************************)
BranchTaken(L, noLine, sameLine) ==
  IF noLine \in Range(L) THEN "none"
  ELSE IF sameLine \in Range(L) THEN "same"
  ELSE "lists"

\* C7: for two presets of the same game, the report of (preset1, preset2)
\* and the report of (preset2, preset1) with the labels swapped take the
\* same branch in each category, list the same ids as only in preset1, the
\* same ids as only in preset2, and the same ids as in both.
C7_Symmetry ==
  (report12 # None /\ report21 # None /\ preset1.game = preset2.game) =>
    LET L12 == Lines(report12[1])
        L21 == Lines(report21[1])
        n1 == preset1_name
        n2 == preset2_name
    IN /\ BranchTaken(L12, PairLine(n1, n2, TXT_NO_STEAM), PairLine(n1, n2, TXT_SAME_STEAM))
            = BranchTaken(L21, PairLine(n2, n1, TXT_NO_STEAM), PairLine(n2, n1, TXT_SAME_STEAM))
       /\ BranchTaken(L12, PairLine(n1, n2, TXT_NO_DLC), PairLine(n1, n2, TXT_SAME_DLC))
            = BranchTaken(L21, PairLine(n2, n1, TXT_NO_DLC), PairLine(n2, n1, TXT_SAME_DLC))
       /\ \A n \in {n1, n2} :
            /\ SteamIdsListed(L12, OnlyHeader(TXT_STEAM_ONLY, n))
                 = SteamIdsListed(L21, OnlyHeader(TXT_STEAM_ONLY, n))
            /\ DlcIdsListed(L12, OnlyHeader(TXT_DLC_ONLY, n))
                 = DlcIdsListed(L21, OnlyHeader(TXT_DLC_ONLY, n))
       /\ SteamIdsListed(L12, BothHeader(TXT_STEAM_BOTH, n1, n2))
            = SteamIdsListed(L21, BothHeader(TXT_STEAM_BOTH, n2, n1))
       /\ DlcIdsListed(L12, BothHeader(TXT_DLC_BOTH, n1, n2))
            = DlcIdsListed(L21, BothHeader(TXT_DLC_BOTH, n2, n1))

\* both reports of two presets of one game that share a Steam id under two
\* display names and have a Steam mod each that the other lacks
C7_Witness ==
  /\ report12 # None /\ report21 # None
  /\ preset1.game = preset2.game
  /\ OnlyIn(preset1.steam_mods, preset2.steam_mods) # <<>>
  /\ OnlyIn(preset2.steam_mods, preset1.steam_mods) = <<>>
  /\ SteamIdsListed(Lines(report12[1]), BothHeader(TXT_STEAM_BOTH, preset1_name, preset2_name))
       = {Some(<<1>>)}
  /\ Section(Lines(report12[1]), BothHeader(TXT_STEAM_BOTH, preset1_name, preset2_name))
       # Section(Lines(report21[1]), BothHeader(TXT_STEAM_BOTH, preset2_name, preset1_name))

(***************************************************************************)
(* C5, C6: the output of the compare driver.                               *)
(***************************************************************************)
LocalHeader(n) == TXT_LOCAL_IN \o n \o TXT_QUOTE

SameSteamIdsLocalsDiffer ==
  /\ out # None
  /\ preset1.game = preset2.game
  /\ IdSet(preset1.steam_mods) = IdSet(preset2.steam_mods)
  /\ preset1.local_mods # preset2.local_mods

NotSameGameText(n1, n2) == TXT_PRESETS \o n1 \o TXT_AND \o n2 \o TXT_NOT_SAME_GAME

IdenticalText(n1, n2) == TXT_PRESETS \o n1 \o TXT_AND \o n2 \o TXT_IDENTICAL

\* the lines a report of PresetsCompare can begin with
SteamOpeningLines(n1, n2) ==
  {PairLine(n1, n2, TXT_NO_STEAM), PairLine(n1, n2, TXT_SAME_STEAM),
   OnlyHeader(TXT_STEAM_ONLY, n1), OnlyHeader(TXT_STEAM_ONLY, n2),
   BothHeader(TXT_STEAM_BOTH, n1, n2)}

\* C6: the output is the single "do not belong to the same game" line when
\* the games differ; else the single "identical contents" line when
\* steam_mods, local_mods and dlcs are equal as sequences, whatever the
\* preset names; and only otherwise the report by category.
C6_ReportForm ==
  out # None =>
    LET n1 == preset1_name
        n2 == preset2_name
    IN IF preset1.game # preset2.game
       THEN out[1] = NotSameGameText(n1, n2)
       ELSE IF /\ preset1.steam_mods = preset2.steam_mods
               /\ preset1.local_mods = preset2.local_mods
               /\ preset1.dlcs = preset2.dlcs
       THEN out[1] = IdenticalText(n1, n2)
       ELSE /\ out[1] # NotSameGameText(n1, n2)
            /\ out[1] # IdenticalText(n1, n2)
            /\ Lines(out[1])[1] \in SteamOpeningLines(n1, n2)
            /\ out[1] = PresetsCompareFmt(preset1, n1, preset2, n2)

\* the output for two presets of one game with equal, non-empty vectors and
\* different preset names
C6_Witness ==
  /\ out # None
  /\ preset1.game = preset2.game
  /\ preset1.preset_name # preset2.preset_name
  /\ preset1.steam_mods = preset2.steam_mods
  /\ preset1.local_mods = preset2.local_mods
  /\ preset1.dlcs = preset2.dlcs
  /\ preset1.steam_mods # <<>>
  /\ out[1] = IdenticalText(preset1_name, preset2_name)

(***************************************************************************)
(* Specification of the conversion driver (a3_preset_to_txt.rs 12-24), from *)
(* the parsed presets on: two presets holding the same items, possibly in  *)
(* another order, are rendered one after the other.                        *)
(***************************************************************************)
\* a display name that spans two lines: "a\nLocal: a"
NAME_TWO_LINES == <<"a">> \o NL \o TXT_LOCAL \o <<"a">>

RenderEntries ==
  {[side |-> 1, list |-> "steam", item |-> it] :
     it \in {PresetSteamMod(<<"a">>, <<1>>), PresetSteamMod(<<"b">>, <<2, 0>>)}}
    \cup {[side |-> 1, list |-> "local", item |-> PresetLocalMod(n)] :
            n \in {<<"a">>, <<"b">>, NAME_TWO_LINES}}
    \cup {[side |-> 1, list |-> "dlc", item |-> it] : it \in DlcItems}

RenderPresets ==
  {PresetOf(g, pn, Vectors(es, 1)) :
     g \in Games, pn \in PresetNames, es \in SeqsUpTo(RenderEntries, MaxItems)}

IndexPermutations(n) ==
  {f \in [1..n -> 1..n] : \A i, j \in 1..n : f[i] = f[j] => i = j}

Reordered(q) == {[i \in 1..Len(q) |-> q[f[i]]] : f \in IndexPermutations(Len(q))}

\* the presets that hold the items of p, each vector in any order
Rearranged(p) ==
  {Preset(p.game, p.preset_name, sm, lm, dl) :
     sm \in Reordered(p.steam_mods), lm \in Reordered(p.local_mods),
     dl \in Reordered(p.dlcs)}

InitRender ==
  /\ preset1 \in RenderPresets
  /\ preset2 \in Rearranged(preset1)
  /\ text1 = None
  /\ text2 = None
  /\ LinkIdle
  /\ ParseIdle
  /\ CompareIdle
  /\ RunIdle

\* the loop body for the first path: preset.to_string() is written
Render1 ==
  /\ text1 = None
  /\ text1' = Some(DisplayPreset(preset1))
  /\ UNCHANGED <<text2, presetVars, linkVars, parseVars, compareVars, runVars>>

\* the loop body for the second path
Render2 ==
  /\ text1 # None
  /\ text2 = None
  /\ text2' = Some(DisplayPreset(preset2))
  /\ UNCHANGED <<text1, presetVars, linkVars, parseVars, compareVars, runVars>>

NextRender == Render1 \/ Render2

SpecRender == InitRender /\ [][NextRender]_vars

(***************************************************************************)
(* C9: the rendering of a Preset.                                          *)
(***************************************************************************)
RECURSIVE Flatten(_)
Flatten(texts) ==
  IF texts = <<>> THEN <<>> ELSE texts[1] \o Flatten(Tail(texts))

\* the entries claimed: the header, then the Steam mods, the local mods and
\* the DLCs, each vector in its own order
EntriesClaimed(p) ==
  <<DisplayGame(p.game) \o TXT_PRESET_HEADER
      \o (IF p.preset_name = None THEN <<>> ELSE TXT_COLON \o p.preset_name[1]) \o NL>>
    \o [i \in DOMAIN p.steam_mods |-> TXT_STEAM \o DisplaySteamMod(p.steam_mods[i]) \o NL]
    \o [i \in DOMAIN p.local_mods |-> TXT_LOCAL \o DisplayLocalMod(p.local_mods[i]) \o NL]
    \o [i \in DOMAIN p.dlcs |-> TXT_DLC \o DisplayDlc(p.dlcs[i]) \o NL]

IsReordering(q1, q2) ==
  /\ Len(q1) = Len(q2)
  /\ \E f \in IndexPermutations(Len(q1)) : q2 = [i \in 1..Len(q1) |-> q1[f[i]]]

\* the two presets differ, and only in the order of their vectors
DifferOnlyInOrder(p, q) ==
  /\ p # q
  /\ p.game = q.game
  /\ p.preset_name = q.preset_name
  /\ IsReordering(p.steam_mods, q.steam_mods)
  /\ IsReordering(p.local_mods, q.local_mods)
  /\ IsReordering(p.dlcs, q.dlcs)

HasLineBreak(t) == \E i \in DOMAIN t : t[i] = "\n"

NoLineBreakInNames(p) ==
  /\ \A i \in DOMAIN p.steam_mods : ~HasLineBreak(p.steam_mods[i].display_name)
  /\ \A i \in DOMAIN p.local_mods : ~HasLineBreak(p.local_mods[i].display_name)
  /\ \A i \in DOMAIN p.dlcs : ~HasLineBreak(p.dlcs[i].display_name)

RenderedAsClaimed ==
  /\ text1 # None => text1[1] = Flatten(EntriesClaimed(preset1))
  /\ text2 # None => text2[1] = Flatten(EntriesClaimed(preset2))
  /\ (text1 # None /\ text2 # None /\ preset1 = preset2) => text1 = text2

\* C9 (as claimed): the text is the header entry, the "Steam: " entries, the
\* "Local: " entries and the "DLC: " entries, each vector in its own order;
\* equal presets give equal texts; two presets that differ only in the
\* order of a vector give different texts.
C9_OrderAlwaysShows ==
  /\ RenderedAsClaimed
  /\ (text1 # None /\ text2 # None /\ DifferOnlyInOrder(preset1, preset2)) =>
       text1 # text2

\* C9 (amended): as claimed, the last part for presets none of whose
\* display names contains a line break.
C9_OrderShowsWithoutLineBreaks ==
  /\ RenderedAsClaimed
  /\ (text1 # None /\ text2 # None /\ DifferOnlyInOrder(preset1, preset2)
        /\ NoLineBreakInNames(preset1)) =>
       text1 # text2

\* two rendered presets with a name, a Steam mod and the same two local
\* mods in opposite orders, no display name spanning lines
C9_Witness ==
  /\ text1 # None /\ text2 # None
  /\ DifferOnlyInOrder(preset1, preset2)
  /\ NoLineBreakInNames(preset1)
  /\ preset1.preset_name # None
  /\ Len(preset1.steam_mods) = 1
  /\ Len(preset1.local_mods) = 2
  /\ preset1.local_mods # preset2.local_mods

====
